---- MODULE Spec2Model ----
(***************************************************************************)
(* Model of src/main.py: a Lark LALR(1) parser whose Transformer           *)
(* (ConfigTransformer) is embedded in the parser, so every callback runs   *)
(* at the reduction of its rule, interleaved with lexing and parsing.      *)
(*                                                                         *)
(* Two specifications share the module:                                    *)
(*   Spec      the whole compilation, one action per parser step or        *)
(*             callback (lex, shift, one reduction per rule, main's tail); *)
(*   ExprSpec  the loop of ConfigTransformer.expression, one action per    *)
(*             loop iteration, started on any list of resolved items.      *)
(***************************************************************************)
EXTENDS Integers, Sequences, FiniteSets

VARIABLES
    (* ---- Spec: parser and transformer state ---- *)
    pstack,     \* LALR parse stack: sequence of [st, sv] (state, semantic value)
    la,         \* kind of the lookahead token fetched from the lexer, or "none"
    constants,  \* ConfigTransformer.constants: dict name -> value
    pc,         \* position in main(): "parse", "dump", "done", "exit1"
    err,        \* kind of the exception caught at main.py:119, or "none"
    result,     \* value bound to `result` at main.py:118, or NoResult
    written,    \* TRUE once yaml.dump wrote the output file
    nstmts,     \* number of "set" keywords shifted so far
    ntok,       \* number of tokens shifted so far
    snapshot,   \* history: constants as it stood when the current statement began
    decls,      \* history: the (name, value) pairs constant_decl received, in order
    prov,       \* history: per open expression body, which items are operators
    defect,     \* prophecy: the document has a lexical or syntactic defect
    (* ---- ExprSpec: locals of ConfigTransformer.expression ---- *)
    tokens,     \* items[0]: the resolved items of the expression body
    isop,       \* history: isop[i] iff tokens[i] was produced by an operator rule
    pos,        \* number of loop iterations completed
    stack,      \* the local `stack`
    exc,        \* exception raised by expression(), or "none"
    ret         \* value returned by expression(), or NoValue

vars == <<pstack, la, constants, pc, err, result, written, nstmts, ntok, snapshot,
          decls, prov, defect, tokens, isop, pos, stack, exc, ret>>

parseVars == <<pstack, la, constants, pc, err, result, written, nstmts, ntok,
               snapshot, decls, prov, defect>>
exprVars == <<tokens, isop, pos, stack, exc, ret>>

-----------------------------------------------------------------------------
(* Bounds *)
MaxStmts == 3       \* statements per document
MaxTokens == 13     \* tokens per document, the end marker not counted
MaxItems == 3       \* items per expression body
MaxElems == 1       \* elements per list
MaxDepth == 1       \* nesting of "(list" and "^{" brackets
MaxLiteral == 1     \* largest octal literal the documents of Spec use
MaxInt == 3         \* magnitude of the integer items ExprSpec starts from
MaxBody == 3        \* items per body in ExprSpec

-----------------------------------------------------------------------------
(* Python values: str is a sequence of one-character strings, int is an    *)
(* unbounded integer, list is a sequence of values.                         *)
IntV(n) == [k |-> "int", v |-> n]
StrV(s) == [k |-> "str", v |-> s]
ListV(xs) == [k |-> "list", v |-> xs]

NoValue == [k |-> "none", v |-> 0]
NoTok == "none"
NoResult == [ok |-> FALSE, map |-> <<>>]

\* main.py:81  the list the loop tests membership in
OpTexts == {<<"+">>, <<"-">>, <<"*">>, <<"/">>, <<"m", "o", "d">>}

\* main.py:81  `token in ["+", "-", "*", "/", "mod"]`: Python == on the value
IsOpToken(token) == token.k = "str" /\ token.v \in OpTexts

\* main.py:87  isinstance(x, int)
IsInt(x) == x.k = "int"

Abs(n) == IF n < 0 THEN -n ELSE n

\* C truncating quotient and remainder, the primitives CPython adjusts
TruncDiv(a, b) ==
    IF (a < 0) = (b < 0) THEN Abs(a) \div Abs(b) ELSE -(Abs(a) \div Abs(b))
TruncMod(a, b) == a - b * TruncDiv(a, b)

\* variant of PyFloorDiv: the quotient truncated toward zero
PyFloorDiv_Trunc(a, b) == TruncDiv(a, b)

\* main.py:93  a // b on ints (b # 0): truncate, then step down when the
\* remainder is non-zero and its sign differs from the divisor's
PyFloorDiv(a, b) ==
    IF TruncMod(a, b) # 0 /\ ((TruncMod(a, b) < 0) # (b < 0))
    THEN TruncDiv(a, b) - 1
    ELSE TruncDiv(a, b)

\* main.py:94  a % b on ints (b # 0)
PyMod(a, b) ==
    IF TruncMod(a, b) # 0 /\ ((TruncMod(a, b) < 0) # (b < 0))
    THEN TruncMod(a, b) + b
    ELSE TruncMod(a, b)

\* main.py:90-94  the arithmetic dispatch on the operator text
ApplyOp(op, a, b) ==
    CASE op = <<"+">> -> a + b
      [] op = <<"-">> -> a - b
      [] op = <<"*">> -> a * b
      [] op = <<"/">> -> PyFloorDiv(a, b)
      [] op = <<"m", "o", "d">> -> PyMod(a, b)

\* variant of ExprToken: a zero divisor yields 0 instead of raising
ExprToken_DivZeroPushes(stk, token) ==
    IF IsOpToken(token)
    THEN IF Len(stk) < 2
         THEN [stack |-> stk, exc |-> "operands"]
         ELSE LET b == stk[Len(stk)]
                  a == stk[Len(stk) - 1]
                  rest == SubSeq(stk, 1, Len(stk) - 2)
              IN  IF ~IsInt(a) \/ ~IsInt(b)
                  THEN [stack |-> rest, exc |-> "type"]
                  ELSE IF token.v \in {<<"/">>, <<"m", "o", "d">>} /\ b.v = 0
                       THEN [stack |-> Append(rest, IntV(0)), exc |-> "none"]
                       ELSE [stack |-> Append(rest, IntV(ApplyOp(token.v, a.v, b.v))), exc |-> "none"]
    ELSE [stack |-> Append(stk, token), exc |-> "none"]

\* variant of ExprToken: the type test joined by `and`, so that a pair with
\* one integer passes it and Python's own operators decide (a sequence times
\* an integer repeats the sequence, anything else is a TypeError)
ExprToken_AndCheck(stk, token) ==
    IF IsOpToken(token)
    THEN IF Len(stk) < 2
         THEN [stack |-> stk, exc |-> "operands"]
         ELSE LET b == stk[Len(stk)]
                  a == stk[Len(stk) - 1]
                  rest == SubSeq(stk, 1, Len(stk) - 2)
              IN  IF ~IsInt(a) /\ ~IsInt(b)
                  THEN [stack |-> rest, exc |-> "type"]
                  ELSE IF ~IsInt(a) \/ ~IsInt(b)
                  THEN IF token.v = <<"*">>
                       THEN [stack |-> Append(rest, IF IsInt(a) THEN b ELSE a),
                             exc |-> "none"]
                       ELSE [stack |-> rest, exc |-> "type"]
                  ELSE IF token.v \in {<<"/">>, <<"m", "o", "d">>} /\ b.v = 0
                       THEN [stack |-> rest, exc |-> "divzero"]
                       ELSE [stack |-> Append(rest, IntV(ApplyOp(token.v, a.v, b.v))), exc |-> "none"]
    ELSE [stack |-> Append(stk, token), exc |-> "none"]

\* variant of ExprToken: the operand types tested before the operand count
ExprToken_TypeFirst(stk, token) ==
    IF IsOpToken(token)
    THEN IF \E i \in 1..Len(stk) : i >= Len(stk) - 1 /\ ~IsInt(stk[i])
         THEN [stack |-> stk, exc |-> "type"]
         ELSE IF Len(stk) < 2
         THEN [stack |-> stk, exc |-> "operands"]
         ELSE LET b == stk[Len(stk)]
                  a == stk[Len(stk) - 1]
                  rest == SubSeq(stk, 1, Len(stk) - 2)
              IN  IF token.v \in {<<"/">>, <<"m", "o", "d">>} /\ b.v = 0
                  THEN [stack |-> rest, exc |-> "divzero"]
                  ELSE [stack |-> Append(rest, IntV(ApplyOp(token.v, a.v, b.v))), exc |-> "none"]
    ELSE [stack |-> Append(stk, token), exc |-> "none"]

\* main.py:80-96  one iteration of the loop: the new stack and the exception
\* raised, if any
ExprToken(stk, token) ==
    IF IsOpToken(token)
    THEN IF Len(stk) < 2
         THEN [stack |-> stk, exc |-> "operands"]
         ELSE LET b == stk[Len(stk)]
                  a == stk[Len(stk) - 1]
                  rest == SubSeq(stk, 1, Len(stk) - 2)
              IN  IF ~IsInt(a) \/ ~IsInt(b)
                  THEN [stack |-> rest, exc |-> "type"]
                  ELSE IF token.v \in {<<"/">>, <<"m", "o", "d">>} /\ b.v = 0
                       THEN [stack |-> rest, exc |-> "divzero"]
                       ELSE [stack |-> Append(rest, IntV(ApplyOp(token.v, a.v, b.v))),
                             exc |-> "none"]
    ELSE [stack |-> Append(stk, token), exc |-> "none"]

\* variant of ExprFinish: the top of a non-empty stack is returned
ExprFinish_Top(stk) ==
    IF Len(stk) = 0
    THEN [val |-> NoValue, exc |-> "stack"]
    ELSE [val |-> stk[Len(stk)], exc |-> "none"]

\* main.py:98-101  the check after the loop
ExprFinish(stk) ==
    IF Len(stk) # 1
    THEN [val |-> NoValue, exc |-> "stack"]
    ELSE [val |-> stk[1], exc |-> "none"]

-----------------------------------------------------------------------------
(* The dict self.constants: a sequence of [key, val] in insertion order.   *)

\* main.py:68  `name in self.constants`
DictHas(d, name) == \E i \in 1..Len(d) : d[i].key = name

\* main.py:69  self.constants[name]
DictGet(d, name) == d[CHOOSE i \in 1..Len(d) : d[i].key = name].val

\* variant of DictSet: an existing entry is kept (setdefault)
DictSet_KeepFirst(d, name, value) ==
    IF \E i \in 1..Len(d) : d[i].key = name
    THEN d
    ELSE Append(d, [key |-> name, val |-> value])

\* main.py:41  self.constants[str(name)] = value
DictSet(d, name, value) ==
    IF DictHas(d, name)
    THEN [i \in 1..Len(d) |-> IF d[i].key = name
                              THEN [key |-> name, val |-> value]
                              ELSE d[i]]
    ELSE Append(d, [key |-> name, val |-> value])

-----------------------------------------------------------------------------
(* Tokens of the grammar (main.py:6-30).                                   *)
Tok(kind, text) == [kind |-> kind, text |-> text]

Names == {<<"A">>, <<"B">>}
StrTexts == {<<"x">>, <<"+">>}
Digits == <<"0", "1", "2", "3", "4", "5", "6", "7">>

RECURSIVE OctalText(_)
\* the octal numeral of n, most significant digit first
OctalText(n) ==
    IF n < 8 THEN <<Digits[n + 1]>>
    ELSE Append(OctalText(n \div 8), Digits[(n % 8) + 1])

\* main.py:12  string: /@"([^"]*)"/
StringToks == {Tok("STRING", <<"@", "\"">> \o s \o <<"\"">>) : s \in StrTexts}
\* main.py:13  number: /0[oO][0-7]+/
NumberToks ==
    {Tok("NUMBER", <<"0", p>> \o OctalText(n)) :
        p \in {"o", "O"}, n \in 0..MaxLiteral}
\* main.py:14  NAME: /[_a-zA-Z]+/
NameToks == {Tok("NAME", n) : n \in Names}
\* main.py:20-24  the operator keywords
OpKinds == {"PLUS", "MINUS", "STAR", "SLASH", "MOD"}
\* main.py:9-17  the other anonymous terminals, and Lark's end marker
PunctKinds == {"SET", "EQ", "LIST", "RPAR", "CARET", "LBRACE", "RBRACE", "END"}

Alphabet ==
    StringToks \cup NumberToks \cup NameToks
        \cup {Tok(kd, <<>>) : kd \in OpKinds \cup PunctKinds}

\* main.py:10  terminals that can begin a value
FirstValue == {"LIST", "STRING", "NUMBER", "CARET", "NAME"}
\* main.py:9-18  terminals that can follow a value in some context; the
\* LR(0) states that complete a value are shared by all contexts, so LALR(1)
\* merges the lookaheads of the three contexts
FollowValue == {"SET", "END", "RPAR", "RBRACE"} \cup FirstValue \cup OpKinds
\* main.py:18  terminals that can follow an item of an expression body
FollowItem == {"RBRACE"} \cup FirstValue \cup OpKinds

\* The action-table keys of each parser state (named after the symbol on
\* top of the parse stack)
Accepts(st) ==
    CASE st = "doc" -> {"SET", "END"}
      [] st = "SET" -> {"NAME"}
      [] st = "DECLNAME" -> {"EQ"}
      [] st = "EQ" -> FirstValue
      [] st \in {"STRING", "NUMBER", "NAME", "RPAR", "RBRACE"} -> FollowValue
      [] st \in {"string", "number", "name_ref", "array", "expression"} -> FollowValue
      [] st = "declvalue" -> {"SET", "END"}
      [] st = "constant_decl" -> {"SET", "END"}
      [] st = "LIST" -> FirstValue \cup {"RPAR"}
      [] st = "elems" -> FirstValue \cup {"RPAR"}
      [] st = "CARET" -> {"LBRACE"}
      [] st = "LBRACE" -> FollowItem
      [] st = "body" -> FollowItem
      [] st = "expr_body" -> {"RBRACE"}
      [] st \in OpKinds -> FollowItem

Frame(st, sv) == [st |-> st, sv |-> sv]
Top(ps) == ps[Len(ps)]
Pop(ps, n) == SubSeq(ps, 1, Len(ps) - n)

\* TRUE when the parser shifts tok in state st (otherwise it reduces)
Shifts(st, kind) ==
    \/ st \in {"doc"} /\ kind = "SET"
    \/ st \in {"SET", "DECLNAME", "EQ", "CARET", "expr_body"}
    \/ st \in {"LIST", "elems"}
    \/ st \in {"LBRACE", "body"} /\ kind # "RBRACE"

\* The parse stack after reducing the rule completed on top of ps, with val
\* the callback's result.  Reductions of Lark's helper rules for `*`
\* (no callback, same action keys as the state they lead to) are folded in.
ReduceTo(ps, val) ==
    LET st == Top(ps).st IN
    CASE st = "STRING" -> Append(Pop(ps, 1), Frame("string", val))
      [] st = "NUMBER" -> Append(Pop(ps, 1), Frame("number", val))
      [] st = "NAME" -> Append(Pop(ps, 1), Frame("name_ref", val))
      [] st \in OpKinds ->
            \* operator, then the body's helper rule
            IF ps[Len(ps) - 1].st = "body"
            THEN Append(Pop(ps, 2),
                        Frame("body", Append(ps[Len(ps) - 1].sv, val)))
            ELSE Append(Pop(ps, 1), Frame("body", <<val>>))
      [] st \in {"string", "number", "name_ref", "array", "expression"} ->
            \* value, then the goto of the context below
            LET below == ps[Len(ps) - 1] IN
           (CASE below.st = "EQ" -> Append(Pop(ps, 1), Frame("declvalue", val))
              [] below.st = "LIST" -> Append(Pop(ps, 1), Frame("elems", <<val>>))
              [] below.st = "elems" ->
                    Append(Pop(ps, 2), Frame("elems", Append(below.sv, val)))
              [] below.st = "LBRACE" -> Append(Pop(ps, 1), Frame("body", <<val>>))
              [] below.st = "body" ->
                    Append(Pop(ps, 2), Frame("body", Append(below.sv, val))))
      [] st = "RPAR" ->
            IF ps[Len(ps) - 1].st = "elems"
            THEN Append(Pop(ps, 3), Frame("array", val))
            ELSE Append(Pop(ps, 2), Frame("array", val))
      [] st = "LBRACE" -> Append(ps, Frame("expr_body", val))
      [] st = "body" -> Append(Pop(ps, 1), Frame("expr_body", val))
      [] st = "RBRACE" -> Append(Pop(ps, 4), Frame("expression", val))
      [] st = "declvalue" -> Append(Pop(ps, 4), Frame("constant_decl", val))
      [] st = "constant_decl" -> Pop(ps, 1)
      [] st = "doc" -> ps

-----------------------------------------------------------------------------
(* Bounding the documents fed to the parser.                               *)

\* the stack with a bracket just closed on top folded into one value
Settled(ps) ==
    IF Top(ps).st \in {"RPAR", "RBRACE"} THEN ReduceTo(ps, NoValue) ELSE ps

Depth(ps) ==
    Cardinality({i \in 1..Len(Settled(ps)) : Settled(ps)[i].st \in {"LIST", "CARET"}})

\* items already in the innermost open bracket, the pending one included
ItemCount(ps) ==
    LET q == Settled(ps)
        idx == {i \in 1..Len(q) : q[i].st \in {"LIST", "elems", "LBRACE", "body"}}
    IN  IF idx = {} THEN [n |-> 0, max |-> 1]
        ELSE LET j == CHOOSE i \in idx : \A m \in idx : m <= i
             IN  [n |-> (IF q[j].st \in {"elems", "body"} THEN Len(q[j].sv) ELSE 0)
                          + (IF j < Len(q) THEN 1 ELSE 0),
                  max |-> IF q[j].st \in {"LIST", "elems"} THEN MaxElems ELSE MaxItems]

WithinBounds(ps, n, m, kind) ==
    /\ kind = "SET" => n < MaxStmts
    /\ kind # "END" => m < MaxTokens
    /\ kind \in {"LIST", "CARET"} => Depth(ps) < MaxDepth
    /\ kind \in FirstValue \cup OpKinds => ItemCount(ps).n < ItemCount(ps).max

RECURSIVE Viable(_, _)
\* TRUE when the grammar alone (no callback) lets the parser consume a token
\* of this kind: every reduction on the way accepts it, up to a shift or
\* the final accept
Viable(ps, kind) ==
    LET st == Top(ps).st IN
    IF kind \notin Accepts(st) THEN FALSE
    ELSE IF Shifts(st, kind) \/ st = "doc" THEN TRUE
    ELSE Viable(ReduceTo(ps, NoValue), kind)

-----------------------------------------------------------------------------
(* The callbacks' pure parts.                                              *)

\* main.py:57  items[0][2:-1]
StringValue(text) == StrV(SubSeq(text, 3, Len(text) - 1))

\* main.py:61  .replace('o', 'o').replace('O', 'o')
ReplaceO(text) == [i \in 1..Len(text) |-> IF text[i] = "O" THEN "o" ELSE text[i]]

DigitVal(c) == (CHOOSE i \in 1..8 : Digits[i] = c) - 1
IsOctDigit(c) == \E i \in 1..8 : Digits[i] = c

RECURSIVE Base8(_)
\* the value of a sequence of octal digits, most significant first
Base8(ds) ==
    IF ds = <<>> THEN 0
    ELSE 8 * Base8(SubSeq(ds, 1, Len(ds) - 1)) + DigitVal(ds[Len(ds)])

\* main.py:62  the texts int(val, 8) accepts: "0o" and at least one octal digit
ValidOctal(val) ==
    /\ Len(val) >= 3
    /\ val[1] = "0" /\ val[2] = "o"
    /\ \A i \in 3..Len(val) : IsOctDigit(val[i])

\* main.py:62  int(val, 8) on a valid literal
NumberValue(text) == IntV(Base8(SubSeq(ReplaceO(text), 3, Len(text))))

\* main.py:47-51  op_plus .. op_mod: the string each operator rule returns
OpString(kind) ==
    CASE kind = "PLUS" -> StrV(<<"+">>)
      [] kind = "MINUS" -> StrV(<<"-">>)
      [] kind = "STAR" -> StrV(<<"*">>)
      [] kind = "SLASH" -> StrV(<<"/">>)
      [] kind = "MOD" -> StrV(<<"m", "o", "d">>)

-----------------------------------------------------------------------------
(* Spec: the compilation.                                                  *)

Init ==
    /\ pstack = <<Frame("doc", <<>>)>>
    /\ la = NoTok
    /\ constants = <<>>
    /\ pc = "parse"
    /\ err = "none"
    /\ result = NoResult
    /\ written = FALSE
    /\ nstmts = 0
    /\ ntok = 0
    /\ snapshot = <<>>
    /\ decls = <<>>
    /\ prov = <<>>
    /\ defect \in BOOLEAN
    /\ tokens = <<>>
    /\ isop = <<>>
    /\ pos = 0
    /\ stack = <<>>
    /\ exc = "none"
    /\ ret = NoValue

\* variant of Abort: the error is swallowed and the table built so far is
\* handed on to the serializer
Abort_Partial(kind) ==
    /\ pc' = "dump"
    /\ err' = kind
    /\ la' = NoTok
    /\ result' = [ok |-> TRUE, map |-> constants]
    /\ UNCHANGED <<pstack, constants, written, nstmts, ntok, snapshot, decls,
                   prov, defect>>

\* main.py:119-121  the exception leaves parse(): message printed, exit 1
Abort(kind) ==
    /\ pc' = "exit1"
    /\ err' = kind
    /\ la' = NoTok
    /\ UNCHANGED <<pstack, constants, result, written, nstmts, ntok, snapshot,
                   decls, prov, defect>>

\* a reduction is due: the lookahead is in the action table and is not shifted
Reducing(st) ==
    /\ pc = "parse"
    /\ la # NoTok
    /\ Top(pstack).st = st
    /\ la \in Accepts(st)
    /\ ~Shifts(st, la)

\* the token kinds the lexer can yield next within the bounds; the text of
\* a token has no effect before the token is shifted and is drawn there
Fed(kind) ==
    /\ WithinBounds(pstack, nstmts, ntok, kind)
    /\ ~defect => Viable(pstack, kind)
    /\ defect => ~(kind = "END" /\ Viable(pstack, "END"))

\* the contextual lexer yields the next token, one the current parser state
\* has an action for
Lex ==
    /\ pc = "parse"
    /\ la = NoTok
    /\ \E kind \in Accepts(Top(pstack).st) :
        /\ Fed(kind)
        /\ la' = kind
    /\ UNCHANGED <<pstack, constants, pc, err, result, written, nstmts, ntok,
                   snapshot, decls, prov, defect>>

\* the lexer meets a character no terminal matches
LexError ==
    /\ pc = "parse"
    /\ la = NoTok
    /\ defect
    /\ Abort("lex")

\* the next token has no entry in the action table of the current state:
\* found by the contextual lexer before the token is fed, or by the parser
\* after the reductions the token triggered
UnexpectedToken ==
    /\ pc = "parse"
    /\ \/ la = NoTok /\ defect
       \/ la # NoTok /\ la \notin Accepts(Top(pstack).st)
    /\ Abort("parse")

ShiftState(st, kind) == IF st = "SET" /\ kind = "NAME" THEN "DECLNAME" ELSE kind

\* the texts a token of this kind can carry
Texts(kind) ==
    {t.text : t \in {a \in Alphabet : a.kind = kind}}

Shift ==
    /\ pc = "parse"
    /\ la # NoTok
    /\ la \in Accepts(Top(pstack).st)
    /\ Shifts(Top(pstack).st, la)
    /\ \E text \in Texts(la) :
          pstack' = Append(pstack, Frame(ShiftState(Top(pstack).st, la), text))
    /\ la' = NoTok
    /\ nstmts' = IF la = "SET" THEN nstmts + 1 ELSE nstmts
    /\ ntok' = ntok + 1
    /\ snapshot' = IF la = "SET" THEN constants ELSE snapshot
    /\ prov' = IF la = "LBRACE" THEN Append(prov, <<>>) ELSE prov
    /\ UNCHANGED <<constants, pc, err, result, written, decls, defect>>

\* the history of an item entering the innermost open body
Noted(flag) ==
    [prov EXCEPT ![Len(prov)] = Append(prov[Len(prov)], flag)]

string ==
    /\ Reducing("STRING")
    /\ pstack' = ReduceTo(pstack, StringValue(Top(pstack).sv))
    /\ UNCHANGED <<la, constants, pc, err, result, written, nstmts, ntok, snapshot,
                   decls, prov, defect>>

number ==
    /\ Reducing("NUMBER")
    /\ IF ValidOctal(ReplaceO(Top(pstack).sv))
       THEN /\ pstack' = ReduceTo(pstack, NumberValue(Top(pstack).sv))
            /\ UNCHANGED <<la, constants, pc, err, result, written, nstmts, ntok,
                           snapshot, decls, prov, defect>>
       ELSE Abort("octal")

\* variant of name_ref: an unknown name resolves to 0 (dict.get with default)
name_ref_Default ==
    /\ Reducing("NAME")
    /\ pstack' = ReduceTo(pstack,
            IF DictHas(constants, Top(pstack).sv)
            THEN DictGet(constants, Top(pstack).sv) ELSE IntV(0))
    /\ UNCHANGED <<la, constants, pc, err, result, written, nstmts, ntok,
                   snapshot, decls, prov, defect>>

\* main.py:66-71  ConfigTransformer.name_ref
name_ref ==
    /\ Reducing("NAME")
    /\ IF DictHas(constants, Top(pstack).sv)
       THEN /\ pstack' = ReduceTo(pstack, DictGet(constants, Top(pstack).sv))
            /\ UNCHANGED <<la, constants, pc, err, result, written, nstmts, ntok,
                           snapshot, decls, prov, defect>>
       ELSE Abort("undefined")

operator ==
    /\ \E kd \in OpKinds : Reducing(kd)
    /\ pstack' = ReduceTo(pstack, OpString(Top(pstack).st))
    /\ prov' = Noted(TRUE)
    /\ UNCHANGED <<la, constants, pc, err, result, written, nstmts, ntok, snapshot,
                   decls, defect>>

value ==
    /\ \E st \in {"string", "number", "name_ref", "array", "expression"} :
            Reducing(st)
    /\ pstack' = ReduceTo(pstack, Top(pstack).sv)
    /\ prov' = IF pstack[Len(pstack) - 1].st \in {"LBRACE", "body"}
               THEN Noted(FALSE) ELSE prov
    /\ UNCHANGED <<la, constants, pc, err, result, written, nstmts, ntok, snapshot,
                   decls, defect>>

array ==
    /\ Reducing("RPAR")
    /\ pstack' = ReduceTo(pstack,
            ListV(IF pstack[Len(pstack) - 1].st = "elems"
                  THEN pstack[Len(pstack) - 1].sv ELSE <<>>))
    /\ UNCHANGED <<la, constants, pc, err, result, written, nstmts, ntok, snapshot,
                   decls, prov, defect>>

expr_body ==
    /\ Reducing("LBRACE") \/ Reducing("body")
    /\ pstack' = ReduceTo(pstack,
            IF Top(pstack).st = "body" THEN Top(pstack).sv ELSE <<>>)
    /\ UNCHANGED <<la, constants, pc, err, result, written, nstmts, ntok, snapshot,
                   decls, prov, defect>>

\* main.py:76-78  expression() is entered at the reduction of its rule
expression_enter ==
    /\ Reducing("RBRACE")
    /\ tokens' = pstack[Len(pstack) - 1].sv
    /\ isop' = prov[Len(prov)]
    /\ pos' = 0
    /\ stack' = <<>>
    /\ exc' = "none"
    /\ ret' = NoValue
    /\ pc' = "expr"
    /\ prov' = Pop(prov, 1)
    /\ UNCHANGED <<pstack, la, constants, err, result, written, nstmts, ntok,
                   snapshot, decls, defect>>

\* main.py:80-96  one iteration of the loop
ExprLoop ==
    /\ pc = "expr"
    /\ exc = "none"
    /\ pos < Len(tokens)
    /\ LET r == ExprToken(stack, tokens[pos + 1])
       IN  /\ stack' = r.stack
           /\ exc' = r.exc
    /\ pos' = pos + 1
    /\ UNCHANGED <<tokens, isop, ret>>

\* main.py:98-101  the loop is over: raise or return
ExprReturn ==
    /\ pc = "expr"
    /\ exc = "none"
    /\ ret = NoValue
    /\ pos = Len(tokens)
    /\ ret' = ExprFinish(stack).val
    /\ exc' = ExprFinish(stack).exc
    /\ UNCHANGED <<tokens, isop, pos, stack>>

\* expression() returned: the reduction pushes its value
expression_exit ==
    /\ pc = "expr"
    /\ ret # NoValue
    /\ pstack # <<>>
    /\ pstack' = ReduceTo(pstack, ret)
    /\ pc' = "parse"
    /\ UNCHANGED <<la, constants, err, result, written, nstmts, ntok, snapshot,
                   decls, prov, defect>>
    /\ tokens' = <<>>
    /\ isop' = <<>>
    /\ pos' = 0
    /\ stack' = <<>>
    /\ ret' = NoValue
    /\ exc' = "none"

\* expression() raised: the exception leaves parse()
expression_raise ==
    /\ pc = "expr"
    /\ exc # "none"
    /\ pstack # <<>>
    /\ Abort(exc)
    /\ UNCHANGED exprVars

constant_decl ==
    /\ Reducing("declvalue")
    /\ LET name == pstack[Len(pstack) - 2].sv
           val == Top(pstack).sv
       IN  /\ constants' = DictSet(constants, name, val)
           /\ decls' = Append(decls, [key |-> name, val |-> val])
           /\ pstack' = ReduceTo(pstack, <<name, val>>)
    /\ UNCHANGED <<la, pc, err, result, written, nstmts, ntok, snapshot, prov, defect>>

statement ==
    /\ Reducing("constant_decl")
    /\ pstack' = ReduceTo(pstack, <<>>)
    /\ UNCHANGED <<la, constants, pc, err, result, written, nstmts, ntok, snapshot,
                   decls, prov, defect>>

start ==
    /\ Reducing("doc")
    /\ result' = [ok |-> TRUE, map |-> constants]
    /\ pc' = "dump"
    /\ pstack' = <<>>
    /\ la' = NoTok
    /\ UNCHANGED <<constants, err, written, nstmts, ntok, snapshot, decls, prov,
                   defect>>

dump ==
    /\ pc = "dump"
    /\ written' = TRUE
    /\ pc' = "done"
    /\ UNCHANGED <<pstack, la, constants, err, result, nstmts, ntok, snapshot,
                   decls, prov, defect>>

dump_error ==
    /\ pc = "dump"
    /\ pc' = "exit1"
    /\ err' = "write"
    /\ UNCHANGED <<pstack, la, constants, result, written, nstmts, ntok, snapshot,
                   decls, prov, defect>>

Next ==
    \/ (Lex /\ UNCHANGED exprVars)
    \/ (LexError /\ UNCHANGED exprVars)
    \/ (UnexpectedToken /\ UNCHANGED exprVars)
    \/ (Shift /\ UNCHANGED exprVars)
    \/ (string /\ UNCHANGED exprVars)
    \/ (number /\ UNCHANGED exprVars)
    \/ (name_ref /\ UNCHANGED exprVars)
    \/ (operator /\ UNCHANGED exprVars)
    \/ (value /\ UNCHANGED exprVars)
    \/ (array /\ UNCHANGED exprVars)
    \/ (expr_body /\ UNCHANGED exprVars)
    \/ expression_enter
    \/ (ExprLoop /\ UNCHANGED parseVars)
    \/ (ExprReturn /\ UNCHANGED parseVars)
    \/ expression_exit
    \/ expression_raise
    \/ (constant_decl /\ UNCHANGED exprVars)
    \/ (statement /\ UNCHANGED exprVars)
    \/ (start /\ UNCHANGED exprVars)
    \/ (dump /\ UNCHANGED exprVars)
    \/ (dump_error /\ UNCHANGED exprVars)

Spec == Init /\ [][Next]_vars

-----------------------------------------------------------------------------
(* ExprSpec: expression() alone, on any list of resolved items.            *)

\* the items an expression body can resolve to: integers, strings (the
\* operator rules return strings too) and lists
BodyItems ==
    {[val |-> IntV(n), op |-> FALSE] : n \in -MaxInt..MaxInt}
        \cup {[val |-> StrV(<<"x">>), op |-> FALSE]}
        \cup {[val |-> StrV(t), op |-> b] : t \in OpTexts, b \in BOOLEAN}
        \cup {[val |-> ListV(<<>>), op |-> FALSE]}

BodySeqs == UNION {[1..n -> BodyItems] : n \in 0..MaxBody}

InitExpr ==
    /\ pstack = <<>>
    /\ la = NoTok
    /\ constants = <<>>
    /\ pc = "expr"
    /\ err = "none"
    /\ result = NoResult
    /\ written = FALSE
    /\ nstmts = 0
    /\ ntok = 0
    /\ snapshot = <<>>
    /\ decls = <<>>
    /\ prov = <<>>
    /\ defect = FALSE
    /\ \E b \in BodySeqs :
        /\ tokens = [i \in 1..Len(b) |-> b[i].val]
        /\ isop = [i \in 1..Len(b) |-> b[i].op]
    /\ pos = 0
    /\ stack = <<>>
    /\ exc = "none"
    /\ ret = NoValue

NextExpr ==
    \/ (ExprLoop /\ UNCHANGED parseVars)
    \/ (ExprReturn /\ UNCHANGED parseVars)

ExprSpec == InitExpr /\ [][NextExpr]_vars

-----------------------------------------------------------------------------
(* Properties.                                                             *)

SyntaxErrors == {"lex", "parse"}
EvalErrors == {"undefined", "operands", "type", "divzero", "stack", "octal"}

\* the name was declared by a statement completed earlier
DeclaredEarlier(n) == \E i \in 1..Len(decls) : decls[i].key = n

\* the value the latest completed declaration of n received
LastDecl(n) ==
    decls[CHOOSE i \in 1..Len(decls) :
            /\ decls[i].key = n
            /\ \A j \in (i + 1)..Len(decls) : decls[j].key # n].val

\* the mapping m binds exactly the declared names, each once, to the value of
\* its last declaration
BindsLast(m) ==
    /\ \A i \in 1..Len(decls) : \E j \in 1..Len(m) : m[j].key = decls[i].key
    /\ \A j \in 1..Len(m) :
        /\ DeclaredEarlier(m[j].key)
        /\ m[j].val = LastDecl(m[j].key)
        /\ \A h \in 1..Len(m) : m[h].key = m[j].key => h = j

\* C1: the mapping returned binds each declared name to the value of its last
\* declaration, and while a statement is being processed the table its
\* references are resolved against is the table as it stood before the
\* statement.
C1_LastDeclarationWins ==
    /\ BindsLast(constants)
    /\ result.ok => BindsLast(result.map)
    /\ (Len(pstack) >= 2 /\ pstack[2].st = "SET") => constants = snapshot

\* `set A = 0o1 set A = ^{ A 0o1 + }` (or another redeclaration of A from 1
\* to 2) compiled to A = 2
C1_Witness ==
    /\ result.ok
    /\ decls = <<[key |-> <<"A">>, val |-> IntV(1)],
                 [key |-> <<"A">>, val |-> IntV(2)]>>
    /\ result.map = <<[key |-> <<"A">>, val |-> IntV(2)]>>

\* C2: when the name_ref callback runs (a NAME in value position is on top
\* and the lookahead lets it reduce), the compilation fails with the
\* undefined-constant error unless an earlier statement declared the name,
\* and then it yields the value of the latest such declaration without error.
C2_UndefinedReference ==
    [][(/\ pc = "parse"
        /\ pstack # <<>>
        /\ Top(pstack).st = "NAME"
        /\ la \in FollowValue)
       => IF DeclaredEarlier(Top(pstack).sv)
          THEN /\ pc' = "parse"
               /\ err' = "none"
               /\ Top(pstack').st = "name_ref"
               /\ Top(pstack').sv = LastDecl(Top(pstack).sv)
          ELSE /\ pc' = "exit1"
               /\ err' = "undefined"
               /\ ~result'.ok]_vars

\* the first declaration of a name referred to itself inside its expression
\* and the compilation failed with the undefined-constant error
C2_Witness ==
    /\ err = "undefined"
    /\ pc = "exit1"
    /\ decls = <<>>
    /\ Len(pstack) = 7
    /\ pstack[6].st = "LBRACE"
    /\ Top(pstack).st = "NAME"
    /\ Top(pstack).sv = pstack[3].sv

\* C3: a lexical, syntactic or evaluation error ends the compilation with no
\* mapping returned and the output file not written, and a mapping is
\* returned or written only when no such error occurred.
C3_ErrorsAbort ==
    /\ err \in SyntaxErrors \cup EvalErrors =>
            pc = "exit1" /\ ~result.ok /\ ~written
    /\ pc = "exit1" => ~written /\ err # "none"
    /\ pc = "parse" \/ pc = "expr" => ~result.ok /\ ~written /\ err = "none"

\* an evaluation error after a declaration was processed: the table has an
\* entry, and nothing was returned or written
C3_Witness ==
    /\ err \in EvalErrors
    /\ pc = "exit1"
    /\ Len(decls) >= 1
    /\ Len(constants) >= 1
    /\ ~result.ok
    /\ ~written

\* C4: an evaluation error is reported only for a document that has no
\* lexical or syntactic defect.
C4_PhaseOrder == err \in EvalErrors => ~defect

\* the loop is about to process an item produced by an operator rule
OpStep ==
    /\ pc = "expr"
    /\ exc = "none"
    /\ ret = NoValue
    /\ pos < Len(tokens)
    /\ isop[pos + 1]

\* q is the floor of a / b (b # 0)
IsFloor(a, b, q) ==
    IF b > 0 THEN b * q <= a /\ a < b * q + b
             ELSE b * q >= a /\ a > b * q + b

\* x is the result the operator must give on (a, b)
Expected(op, a, b, x) ==
    CASE op = <<"+">> -> x = a + b
      [] op = <<"-">> -> x = a - b
      [] op = <<"*">> -> x = a * b
      [] op = <<"/">> -> IsFloor(a, b, x)
      [] op = <<"m", "o", "d">> ->
            /\ \E q \in -(Abs(a) + 1)..(Abs(a) + 1) :
                    IsFloor(a, b, q) /\ x = a - b * q
            /\ x = 0 \/ ((x < 0) = (b < 0))

\* C5: an operator applied to a stack ending in two integers a, b (b # 0 for
\* / and mod) replaces them by one integer: a+b, a-b, a*b, the floor quotient,
\* or the remainder of the floor quotient.
C5_Arithmetic ==
    [][(/\ OpStep
        /\ Len(stack) >= 2
        /\ IsInt(stack[Len(stack) - 1])
        /\ IsInt(stack[Len(stack)])
        /\ (tokens[pos + 1].v \in {<<"/">>, <<"m", "o", "d">>}
                => stack[Len(stack)].v # 0))
       => /\ exc' = "none"
          /\ Len(stack') = Len(stack) - 1
          /\ SubSeq(stack', 1, Len(stack) - 2) = SubSeq(stack, 1, Len(stack) - 2)
          /\ IsInt(stack'[Len(stack')])
          /\ Expected(tokens[pos + 1].v, stack[Len(stack) - 1].v,
                      stack[Len(stack)].v, stack'[Len(stack')].v)]_vars

\* -3 / 2 gave -2
C5_Witness ==
    /\ pc = "expr"
    /\ tokens = <<IntV(-3), IntV(2), StrV(<<"/">>)>>
    /\ isop = <<FALSE, FALSE, TRUE>>
    /\ pos = 3
    /\ stack = <<IntV(-2)>>

\* C6: / or mod applied to integers a, b with b = 0 raises the
\* division-by-zero error and pushes nothing; the error ends the compilation
\* with no mapping returned and nothing written.
C6_DivisionByZero ==
    /\ [][(/\ OpStep
           /\ tokens[pos + 1].v \in {<<"/">>, <<"m", "o", "d">>}
           /\ Len(stack) >= 2
           /\ IsInt(stack[Len(stack) - 1])
           /\ IsInt(stack[Len(stack)])
           /\ stack[Len(stack)].v = 0)
          => /\ exc' = "divzero"
             /\ ret' = NoValue
             /\ Len(stack') < Len(stack)]_vars
    /\ [][(pc = "expr" /\ exc = "divzero")
          => (pc' = "exit1" /\ err' = "divzero" /\ ~result'.ok)]_vars
    /\ [](err = "divzero" => pc = "exit1" /\ ~result.ok /\ ~written)

\* `^{ 0o0 0o0 / }` failed with the division-by-zero error
C6_Witness ==
    /\ err = "divzero"
    /\ pc = "exit1"
    /\ tokens = <<IntV(0), IntV(0), StrV(<<"/">>)>>
    /\ isop = <<FALSE, FALSE, TRUE>>
    /\ ~result.ok

\* C7: an operator applied to a stack of at least two values whose top two
\* are not both integers raises the integers-only type error, whatever the
\* operator; no result is pushed.
C7_TypeError ==
    [][(/\ OpStep
        /\ Len(stack) >= 2
        /\ (~IsInt(stack[Len(stack) - 1]) \/ ~IsInt(stack[Len(stack)])))
       => /\ exc' = "type"
          /\ ret' = NoValue
          /\ Len(stack') < Len(stack)]_vars

\* an integer times a string raised the type error
C7_Witness ==
    /\ exc = "type"
    /\ pos = 3
    /\ tokens = <<StrV(<<"x">>), IntV(2), StrV(<<"*">>)>>
    /\ isop = <<FALSE, FALSE, TRUE>>

\* C8: an operator processed on a stack of fewer than two values raises the
\* not-enough-operands error, also when the one value is not an integer.
C8_NotEnoughOperands ==
    [][(OpStep /\ Len(stack) < 2)
       => /\ exc' = "operands"
          /\ ret' = NoValue
          /\ stack' = stack]_vars

\* an operator met a stack holding one string
C8_Witness ==
    /\ exc = "operands"
    /\ pos = 2
    /\ isop = <<FALSE, TRUE>>
    /\ stack = <<StrV(<<"x">>)>>

\* C9: when the loop ends without error, a stack of exactly one value makes
\* that value the result, and any other stack raises the malformed-stack
\* error; a value is returned in no other case.
C9_SingleResult ==
    /\ [][(pc = "expr" /\ exc = "none" /\ ret = NoValue /\ pos = Len(tokens))
          => IF Len(stack) = 1
             THEN ret' = stack[1] /\ exc' = "none"
             ELSE ret' = NoValue /\ exc' = "stack"]_vars
    /\ [](ret # NoValue =>
            pos = Len(tokens) /\ exc = "none" /\ stack = <<ret>>)

\* two values were left on the stack and the malformed-stack error was raised
C9_Witness ==
    /\ exc = "stack"
    /\ ret = NoValue
    /\ pos = Len(tokens)
    /\ Len(stack) = 2

\* C10: an item that no operator rule produced is pushed on the stack,
\* whatever its value.
C10_ValuesArePushed ==
    [][(/\ pc = "expr"
        /\ exc = "none"
        /\ ret = NoValue
        /\ pos < Len(tokens)
        /\ ~isop[pos + 1])
       => /\ exc' = "none"
          /\ stack' = Append(stack, tokens[pos + 1])]_vars

====
